---- MODULE Spec2Model ----
(***************************************************************************)
(* Daily recurrence of get_strategy_portfolio_weight_comparison            *)
(* (src/KBAM/Dashboard/call.py): benchmark (BM) weights, strategy (MP)     *)
(* weights, exact-targeting injections and the BM / MP NAV series.         *)
(*                                                                         *)
(* Python floats are modelled as exact rationals <<n, d>> in lowest terms  *)
(* with d > 0.  Instrument names are sequences of one-character strings so *)
(* that the name normalisation of the code can be computed.                *)
(***************************************************************************)
EXTENDS Integers, Sequences, FiniteSets, TLC

----------------------------------------------------------------------------
(* Bounds of the model *)

\* number of trading dates of a window, the base date included
MaxDates == 3

\* largest number of override rows of one date
MaxOverrides == 2

\* the exact-targeting solver is tried on the inputs k/4, k up to MaxQuarters
MaxQuarters == 5

----------------------------------------------------------------------------
(* Rational arithmetic *)

Abs(n) == IF n < 0 THEN -n ELSE n

RECURSIVE GCD(_, _)
GCD(a, b) == IF b = 0 THEN a ELSE GCD(b, a % b)

\* the rational n/d (d # 0) in lowest terms with a positive denominator
R(n, d) ==
    LET g == GCD(Abs(n), Abs(d))
        s == IF d < 0 THEN -1 ELSE 1
    IN  <<(s * n) \div g, (s * d) \div g>>

Zero == <<0, 1>>
One == <<1, 1>>

\* (common factors are cancelled before multiplying, as the products of the
\* uncancelled terms need not fit TLC's integers)
RAdd(a, b) ==
    LET g == GCD(a[2], b[2])
    IN  R(a[1] * (b[2] \div g) + b[1] * (a[2] \div g), (a[2] \div g) * b[2])
RNeg(a) == <<-a[1], a[2]>>
RSub(a, b) == RAdd(a, RNeg(b))
RMul(a, b) ==
    LET g1 == GCD(Abs(a[1]), b[2])
        g2 == GCD(Abs(b[1]), a[2])
    IN  R((a[1] \div g1) * (b[1] \div g2), (a[2] \div g2) * (b[2] \div g1))
\* a / b, for b # Zero
RDiv(a, b) == RMul(a, IF b[1] < 0 THEN <<-b[2], -b[1]>> ELSE <<b[2], b[1]>>)
RPos(a) == a[1] > 0
RLt(a, b) == RPos(RSub(b, a))
RLe(a, b) == ~RPos(RSub(a, b))

\* Python None (a missing price) and a NULL active_weight of the override table
\* (a pair with denominator 0 is no rational; it keeps the values comparable)
None == <<0, 0>>
NULL == None

\* Python truthiness of an optional float: None and 0.0 are false
Truthy(p) == p # None /\ p # Zero

\* the function f with its values computed once
Eval(f) == f @@ <<>>

\* sum(f.values()) of a dict modelled as a function
RECURSIVE SumOver(_, _)
SumOver(f, keys) ==
    IF keys = {} THEN Zero
    ELSE LET k == CHOOSE x \in keys : TRUE
         IN  RAdd(f[k], SumOver(f, keys \ {k}))

SumValues(f) == SumOver(f, DOMAIN f)

\* sum of the values of an insertion-ordered dict <<[name, value], ...>>
RECURSIVE SumSeq(_)
SumSeq(d) == IF d = <<>> THEN Zero ELSE RAdd(d[1].value, SumSeq(Tail(d)))

----------------------------------------------------------------------------
(* Instrument names *)

\* code points of the characters used in names (ASCII)
CharCode(c) ==
    CASE c = " " -> 32
      [] c = "A" -> 65
      [] c = "B" -> 66
      [] c = "C" -> 67
      [] c = "S" -> 83
      [] c = "U" -> 85
      [] c = "Z" -> 90
      [] c = "a" -> 97
      [] c = "b" -> 98

\* str.upper() on one character
UpperChar(c) ==
    CASE c = "a" -> "A"
      [] c = "b" -> "B"
      [] OTHER -> c

\* s.replace(' ', '').upper()
RECURSIVE NameClean(_)
NameClean(s) ==
    IF s = <<>> THEN <<>>
    ELSE IF Head(s) = " " THEN NameClean(Tail(s))
         ELSE <<UpperChar(Head(s))>> \o NameClean(Tail(s))

\* s.replace('US', '').strip() on a cleaned name: every non-overlapping
\* occurrence of "US" is removed, left to right
RECURSIVE NameNoUS(_)
NameNoUS(s) ==
    IF s = <<>> THEN <<>>
    ELSE IF Len(s) >= 2 /\ s[1] = "U" /\ s[2] = "S" THEN NameNoUS(Tail(Tail(s)))
         ELSE <<Head(s)>> \o NameNoUS(Tail(s))

\* s < t for Python strings (code point order), the order of ORDER BY / sort_values
RECURSIVE NameLess(_, _)
NameLess(s, t) ==
    IF t = <<>> THEN FALSE
    ELSE IF s = <<>> THEN TRUE
    ELSE IF CharCode(Head(s)) # CharCode(Head(t)) THEN CharCode(Head(s)) < CharCode(Head(t))
    ELSE NameLess(Tail(s), Tail(t))

\* dict.get(key, default) on an insertion-ordered dict
DictGet(d, k, default) ==
    IF \E i \in 1..Len(d) : d[i].name = k
    THEN d[CHOOSE i \in 1..Len(d) : d[i].name = k].value
    ELSE default

DictKeys(d) == {d[i].name : i \in 1..Len(d)}

\* f.get(key, default) on a dict modelled as a function
Get(f, k, default) == IF k \in DOMAIN f THEN f[k] ELSE default

\* the orders in which a Python set with the elements S can be iterated
Orderings(S) ==
    {o \in [1..Cardinality(S) -> S] : \A i, j \in 1..Cardinality(S) : i # j => o[i] # o[j]}

----------------------------------------------------------------------------
(* Inputs of a window *)

A == <<"A">>
B == <<"B">>
C == <<"C">>
Z == <<"Z">>

\* benchmark weights of one date (bm_data rows of the date)
W1 == (A :> R(1, 2)) @@ (B :> R(1, 4)) @@ (C :> R(1, 4))
W2 == (A :> R(1, 4)) @@ (B :> R(1, 2)) @@ (C :> R(1, 4))

Row(n, w) == [name |-> n, active_weight |-> w]

\* mp_weight rows of one date are unique per name and sorted by name
\* (ORDER BY dt, stock; sort_values(['dt', 'stock_name']))
IsSortedRows(t) == \A i \in 1..(Len(t) - 1) : NameLess(t[i].name, t[i + 1].name)

Tables(rows) ==
    {t \in UNION {[1..n -> rows] : n \in 0..MaxOverrides} : IsSortedRows(t)}

\* The scopes from which the dates of a window draw their rows:
\*   bm      the benchmark weight maps of a date
\*   rows    the override rows a date's table is made of
\*   prices  per name, the prices the stock_price table may hold for a date
\*   stale   whether the stock_price table may hold no price at all for a date
OverrideScope ==
    [bm |-> {W1},
     rows |-> {Row(A, R(1, 8)), Row(A, R(-1, 8)), Row(B, R(1, 4))},
     prices |-> (A :> {R(1, 1), R(2, 1)}) @@ (B :> {R(1, 1)}) @@ (C :> {R(1, 1)}),
     stale |-> FALSE]

DriftScope ==
    [bm |-> {W1, W2},
     rows |-> {},
     prices |-> (A :> {R(1, 1), R(2, 1)}) @@ (B :> {R(1, 1)}) @@ (C :> {R(1, 1), None}),
     stale |-> FALSE]

Scopes == {OverrideScope, DriftScope}

\* names of override rows that differ from the benchmark's names
AUS == <<"A", " ", "U", "S">>
LowerA == <<"a">>
AB == <<"A", "B">>

\* dates without any price
StaleScope ==
    [bm |-> {W1},
     rows |-> {Row(A, R(1, 8))},
     prices |-> (A :> {R(1, 1), R(2, 1)}) @@ (B :> {R(1, 1)}) @@ (C :> {R(1, 1)}),
     stale |-> TRUE]

\* an override that sells more than the whole portfolio
ShortScope ==
    [bm |-> {W1},
     rows |-> {Row(A, R(-1, 1))},
     prices |-> (A :> {R(1, 1), R(2, 1)}) @@ (B :> {R(1, 1)}) @@ (C :> {R(1, 1)}),
     stale |-> FALSE]

\* an override on a name the benchmark does not hold
UnmatchedScope ==
    [bm |-> {W1},
     rows |-> {Row(Z, R(1, 8))},
     prices |-> (A :> {R(1, 1), R(2, 1)}) @@ (B :> {R(1, 1)}) @@ (C :> {R(1, 1)})
                @@ (Z :> {R(1, 1)}),
     stale |-> FALSE]

\* override rows with a NULL active_weight and with names that match the
\* benchmark's name A only after normalisation
NameScope ==
    [bm |-> {W1},
     rows |-> {Row(A, NULL), Row(AUS, R(1, 4)), Row(LowerA, R(1, 8))},
     prices |-> (A :> {R(1, 1)}) @@ (B :> {R(1, 1)}) @@ (C :> {R(1, 1)})
                @@ (AUS :> {R(1, 1)}) @@ (LowerA :> {R(1, 1)}),
     stale |-> FALSE]

\* an override row whose name has the benchmark's name A as a prefix
PrefixScope ==
    [bm |-> {W1},
     rows |-> {Row(AB, R(1, 8))},
     prices |-> (A :> {R(1, 1), R(2, 1)}) @@ (B :> {R(1, 1)}) @@ (C :> {R(1, 1)})
                @@ (AB :> {R(1, 1)}),
     stale |-> FALSE]

EdgeScopes == {StaleScope, ShortScope, UnmatchedScope, NameScope, PrefixScope}

----------------------------------------------------------------------------
(* The steps of one date *)

\* date_bm_weights: the non-null weights of the date's bm_data rows
DateBmWeights(bm) == bm

\* dict assignment d[k] = v on an insertion-ordered dict
DictSet(d, k, v) ==
    IF \E i \in 1..Len(d) : d[i].name = k
    THEN [i \in 1..Len(d) |-> IF d[i].name = k THEN [name |-> k, value |-> v] ELSE d[i]]
    ELSE Append(d, [name |-> k, value |-> v])

\* date_active_weights: a NULL active_weight is stored as 0.0
RECURSIVE DateActiveWeightsFrom(_, _)
DateActiveWeightsFrom(d, rows) ==
    IF rows = <<>> THEN d
    ELSE LET r == Head(rows)
             w == IF r.active_weight = NULL THEN Zero ELSE r.active_weight
         IN  DateActiveWeightsFrom(DictSet(d, r.name, w), Tail(rows))

DateActiveWeights(rows) == DateActiveWeightsFrom(<<>>, rows)

\* all_stocks_for_price
AllStocksForPrice(date_bm_weights, date_active_weights) ==
    DOMAIN date_bm_weights \cup DictKeys(date_active_weights)

\* (mutant) the base date takes only positive active weights, as later dates do
BaseStrategyWeightsPositiveOnly(date_bm_weights, date_active_weights) ==
    Eval([s \in DOMAIN date_bm_weights \cup DictKeys(date_active_weights) |->
        IF RPos(DictGet(date_active_weights, s, Zero))
        THEN RAdd(Get(date_bm_weights, s, Zero), DictGet(date_active_weights, s, Zero))
        ELSE Get(date_bm_weights, s, Zero)])

\* base date: strategy weight = BM weight + active_weight
BaseStrategyWeights(date_bm_weights, date_active_weights) ==
    Eval([s \in DOMAIN date_bm_weights \cup DictKeys(date_active_weights) |->
        RAdd(Get(date_bm_weights, s, Zero), DictGet(date_active_weights, s, Zero))])

\* all_stocks of a later date
AllStocks(prev_sw, date_bm_weights, date_active_weights) ==
    DOMAIN prev_sw \cup DOMAIN date_bm_weights \cup DictKeys(date_active_weights)

\* (mutant) a stock without a valid price pair loses its weight
AdjustedWeightDropped(prev_strategy_weight, prev_price, current_price) ==
    IF Truthy(prev_price) /\ Truthy(current_price) /\ RPos(prev_price)
    THEN RMul(prev_strategy_weight, RDiv(current_price, prev_price))
    ELSE Zero

\* the weight of one stock after the day's price move
AdjustedWeight(prev_strategy_weight, prev_price, current_price) ==
    IF Truthy(prev_price) /\ Truthy(current_price) /\ RPos(prev_price)
    THEN RMul(prev_strategy_weight, RDiv(current_price, prev_price))
    ELSE prev_strategy_weight

AdjustedWeights(all_stocks, prev_sw, prev_px, date_px) ==
    Eval([s \in all_stocks |->
        AdjustedWeight(Get(prev_sw, s, Zero), Get(prev_px, s, None), Get(date_px, s, None))])

\* does the override name mp match the stock by the engine's name matching
EngineNameMatch(stock_name, mp_stock_name) ==
    LET sc == NameClean(stock_name)
        mc == NameClean(mp_stock_name)
    IN  \/ sc = mc
        \/ NameNoUS(sc) # <<>> /\ NameNoUS(mc) # <<>> /\ NameNoUS(sc) = NameNoUS(mc)

\* current_active_weight of a stock
CurrentActiveWeight(stock_name, date_active_weights) ==
    LET exact == DictGet(date_active_weights, stock_name, Zero)
        hits == {i \in 1..Len(date_active_weights) :
                    EngineNameMatch(stock_name, date_active_weights[i].name)}
    IN  IF exact = Zero /\ date_active_weights # <<>> /\ hits # {}
        THEN date_active_weights[CHOOSE i \in hits : \A j \in hits : i <= j].value
        ELSE exact

\* stocks_with_active_weight as a map; its insertion order is the iteration
\* order of the set all_stocks
StocksWithActiveWeight(all_stocks, adjusted_weights, date_active_weights) ==
    LET keys == {s \in all_stocks : RPos(CurrentActiveWeight(s, date_active_weights))}
    IN  Eval([s \in keys |->
            [adjusted_weight |-> adjusted_weights[s],
             target_weight |-> RAdd(adjusted_weights[s],
                                    CurrentActiveWeight(s, date_active_weights)),
             active_weight |-> CurrentActiveWeight(s, date_active_weights)]])

\* nav_old: the sum of the adjusted weights, 1.0 when it is not positive
NavOld(adjusted_weights) ==
    LET total == IF DOMAIN adjusted_weights # {} THEN SumValues(adjusted_weights) ELSE One
    IN  IF RLe(total, Zero) THEN One ELSE total

\* (mutant) the target is not scaled by the NAV
AdditionalAmountNoNav(target_weight, nav_current, adjusted_weight) ==
    RDiv(RSub(target_weight, adjusted_weight), RSub(One, target_weight))

\* exact targeting: x = (B_target * NAV - B_old) / (1 - B_target)
AdditionalAmount(target_weight, nav_current, adjusted_weight) ==
    RDiv(RSub(RMul(target_weight, nav_current), adjusted_weight), RSub(One, target_weight))

\* (mutant) targets up to 2 are injected
TargetAcceptedBelowTwo(target_weight) == RPos(RSub(R(2, 1), target_weight))

\* the guard (1 - target_weight) > 0 of the injection
TargetAccepted(target_weight) == RPos(RSub(One, target_weight))

\* one pass of the injection loop: acc = [nav_current, adjusted_weights_current,
\* strategy_weights, injections]
InjectOne(acc, stock_name, info) ==
    LET adjusted_weight == Get(acc.adjusted_weights_current, stock_name, Zero)
        target_weight == info.target_weight
    IN  IF TargetAccepted(target_weight)
        THEN LET additional_amount ==
                     AdditionalAmount(target_weight, acc.nav_current, adjusted_weight)
                 new_amount == RAdd(adjusted_weight, additional_amount)
                 nav_new == RAdd(acc.nav_current, additional_amount)
             IN  [nav_current |-> nav_new,
                  adjusted_weights_current |->
                      (stock_name :> new_amount) @@ acc.adjusted_weights_current,
                  strategy_weights |-> (stock_name :> target_weight) @@ acc.strategy_weights,
                  injections |-> Append(acc.injections,
                      [stock |-> stock_name, accepted |-> TRUE,
                       target_weight |-> target_weight,
                       adjusted_weight |-> adjusted_weight,
                       nav_before |-> acc.nav_current,
                       additional_amount |-> additional_amount,
                       new_amount |-> new_amount,
                       nav_after |-> nav_new])]
        ELSE [acc EXCEPT
                 !.strategy_weights = (stock_name :> adjusted_weight) @@ acc.strategy_weights,
                 !.injections = Append(acc.injections,
                      [stock |-> stock_name, accepted |-> FALSE,
                       target_weight |-> target_weight,
                       adjusted_weight |-> adjusted_weight,
                       nav_before |-> acc.nav_current,
                       additional_amount |-> Zero,
                       new_amount |-> adjusted_weight,
                       nav_after |-> acc.nav_current])]

RECURSIVE InjectAll(_, _, _)
InjectAll(acc, order, swa) ==
    IF order = <<>> THEN acc
    ELSE InjectAll(InjectOne(acc, Head(order), swa[Head(order)]), Tail(order), swa)

\* (mutant) no dilution
DilutedWeightNone(adjusted_weight, nav_current) == adjusted_weight

\* dilution of a stock without active weight
DilutedWeight(adjusted_weight, nav_current) ==
    IF RPos(nav_current) THEN RDiv(adjusted_weight, nav_current) ELSE adjusted_weight

EmptyMap == [s \in {} |-> Zero]

\* (mutant) the weights of a date without active weight are rescaled to sum to 1
NoOverrideWeightsRenormalized(adjusted_weights) ==
    Eval([s \in DOMAIN adjusted_weights |->
        RDiv(adjusted_weights[s], NavOld(adjusted_weights))])

\* without a stock with active weight the adjusted weights are used as they are
NoOverrideWeights(adjusted_weights) == adjusted_weights

\* strategy_weights of a later date, with the bookkeeping of the injection loop;
\* order is the insertion order of stocks_with_active_weight
Targeting(all_stocks, adjusted_weights, swa, order) ==
    IF DOMAIN swa # {}
    THEN LET acc == InjectAll([nav_current |-> NavOld(adjusted_weights),
                               adjusted_weights_current |-> adjusted_weights,
                               strategy_weights |-> EmptyMap,
                               injections |-> <<>>], order, swa)
         IN  [nav_old |-> NavOld(adjusted_weights),
              nav_current |-> acc.nav_current,
              injections |-> acc.injections,
              strategy_weights |->
                  Eval([s \in all_stocks |->
                      IF s \in DOMAIN swa THEN acc.strategy_weights[s]
                      ELSE DilutedWeight(Get(adjusted_weights, s, Zero), acc.nav_current)])]
    ELSE [nav_old |-> None,
          nav_current |-> None,
          injections |-> <<>>,
          strategy_weights |-> NoOverrideWeights(adjusted_weights)]

\* the return of one stock over the day, 0 without a valid price pair
StockDailyReturn(prev_price, current_price) ==
    IF Truthy(prev_price) /\ Truthy(current_price) /\ RPos(prev_price)
    THEN RSub(RDiv(current_price, prev_price), One)
    ELSE Zero

\* sum over the stocks of (daily return) x (weight)
DailyReturn(weights, prev_px, date_px) ==
    SumValues(Eval([s \in DOMAIN weights |->
        RMul(StockDailyReturn(Get(prev_px, s, None), Get(date_px, s, None)), weights[s])]))

\* (mutant) the active weights are not added to the base MP NAV
BaseMpNavNoOverlay(bm_nav_base, active_weight_sum) == bm_nav_base

\* base date NAVs
BaseBmNav(bm_weight_sum) == IF RPos(bm_weight_sum) THEN bm_weight_sum ELSE One

BaseMpNav(bm_nav_base, active_weight_sum) ==
    RAdd(bm_nav_base, RMul(bm_nav_base, active_weight_sum))

\* NAVs of a later date
NextBmNav(prev_nav, bm_daily_return, bm_weight_sum) ==
    IF prev_nav # None /\ RPos(prev_nav)
    THEN RMul(prev_nav, RAdd(One, bm_daily_return))
    ELSE BaseBmNav(bm_weight_sum)

NextMpNav(prev_nav, mp_daily_return, bm_nav_base, active_weight_sum) ==
    IF prev_nav # None /\ RPos(prev_nav)
    THEN RMul(prev_nav, RAdd(One, mp_daily_return))
    ELSE BaseMpNav(bm_nav_base, active_weight_sum)

----------------------------------------------------------------------------
(* State *)

VARIABLES
    scope,                  \* the sets the window's rows are drawn from
    window,                 \* the rows of the dates processed so far (bm_data,
                            \* mp_weight_data and stock_price per date)
    run,                    \* 1: first call of the function, 2: second call on the same rows
    di,                     \* number of dates the loop of the current call has processed
    prev_bm_weights,
    prev_strategy_weights,
    prev_prices,
    prev_bm_nav,
    prev_mp_nav,
    results,                \* per date, the rows of result_df (by stock)
    daily_weight_summary,   \* the rows of daily_weight_summary
    day,                    \* the locals of the last pass of the date loop
    first_results,          \* result_df of the first call
    first_summary,          \* daily_weight_summary of the first call
    solver,                 \* one pass of the injection loop on its own
    base_prices,            \* the prices of the base date
    returned,               \* what the call has returned before the date loop, if anything
    strategy_returns,       \* calculate_strategy_portfolio_returns: the locals of its date
                            \* loop and its results
    constituents,           \* the index_constituents rows of the dates loaded so far
    daily_sector_contributions,  \* what get_daily_sector_contributions returned
    bm_stock_weights,       \* what get_bm_stock_weights returned
    daily_and_cumulative,   \* what calculate_daily_and_cumulative_contribution computed
    sector_timeseries       \* what _sector_contribution_timeseries returned

vars == <<scope, window, run, di, prev_bm_weights, prev_strategy_weights, prev_prices,
          prev_bm_nav, prev_mp_nav, results, daily_weight_summary, day,
          first_results, first_summary, solver, base_prices, returned,
          strategy_returns, constituents, daily_sector_contributions, bm_stock_weights,
          daily_and_cumulative, sector_timeseries>>

\* the state of the attribution functions
attribution == <<constituents, daily_sector_contributions, bm_stock_weights,
                 daily_and_cumulative, sector_timeseries>>

\* the state of get_strategy_portfolio_weight_comparison's date loop
comparison == <<prev_bm_weights, prev_strategy_weights, prev_prices, prev_bm_nav,
                prev_mp_nav, results, daily_weight_summary, day>>

NoDay ==
    [is_base |-> FALSE, date_bm_weights |-> EmptyMap, date_active_weights |-> <<>>,
     date_prices |-> EmptyMap, before_strategy_weights |-> EmptyMap,
     before_prices |-> EmptyMap, before_mp_nav |-> None, before_bm_nav |-> None,
     all_stocks |-> {}, adjusted_weights |-> EmptyMap,
     stocks_with_active_weight |-> EmptyMap, nav_old |-> None, nav_current |-> None,
     injections |-> <<>>, strategy_weights |-> EmptyMap,
     engine_match |-> EmptyMap, report_match |-> EmptyMap]

\* the rows one date can have within a scope: benchmark weights, override
\* rows, and a price (or none) for every stock the price query names
DateInputs(sc) ==
    UNION {
        UNION {
            {[bm |-> bm, rows |-> t, prices |-> px] :
                px \in {f \in [DOMAIN bm \cup {t[i].name : i \in 1..Len(t)} ->
                                  UNION {sc.prices[n] : n \in DOMAIN sc.prices}] :
                            \A n \in DOMAIN f : f[n] \in sc.prices[n]}
                        \cup (IF sc.stale
                              THEN {[n \in DOMAIN bm \cup {t[i].name : i \in 1..Len(t)}
                                        |-> None]}
                              ELSE {})}
            : t \in Tables(sc.rows)}
        : bm \in sc.bm}

\* date_prices: the rows of the price query with a non-null price
DatePrices(prices) ==
    Eval([s \in {n \in DOMAIN prices : prices[n] # None} |-> prices[s]])

\* s.startswith(t)
Prefix(t, s) == Len(t) <= Len(s) /\ SubSeq(s, 1, Len(t)) = t

\* does the override name mp match the stock by the name matching of the
\* result rows
ReportNameMatch(stock_name, mp_stock_name) ==
    LET sc == NameClean(stock_name)
        mc == NameClean(mp_stock_name)
    IN  \/ stock_name = mp_stock_name
        \/ sc = mc
        \/ NameNoUS(sc) # <<>> /\ NameNoUS(mc) # <<>> /\ NameNoUS(sc) = NameNoUS(mc)
        \/ Prefix(mc, sc)
        \/ Prefix(sc, mc)

\* the position in date_active_weights of the row whose active weight the
\* injection step takes for a stock, 0 when it takes none
EngineMatchedRow(stock_name, date_active_weights) ==
    LET exact == DictGet(date_active_weights, stock_name, Zero)
        hits == {i \in 1..Len(date_active_weights) :
                    EngineNameMatch(stock_name, date_active_weights[i].name)}
    IN  IF exact = Zero /\ date_active_weights # <<>>
        THEN IF hits # {} THEN CHOOSE i \in hits : \A j \in hits : i <= j ELSE 0
        ELSE IF stock_name \in DictKeys(date_active_weights)
             THEN CHOOSE i \in 1..Len(date_active_weights) :
                      date_active_weights[i].name = stock_name
             ELSE 0

\* the same for the active_weight column of the result rows
ReportMatchedRow(stock_name, date_active_weights) ==
    LET exact == DictGet(date_active_weights, stock_name, Zero)
        hits == {i \in 1..Len(date_active_weights) :
                    ReportNameMatch(stock_name, date_active_weights[i].name)}
    IN  IF exact = Zero /\ date_active_weights # <<>>
        THEN IF hits # {} THEN CHOOSE i \in hits : \A j \in hits : i <= j ELSE 0
        ELSE IF stock_name \in DictKeys(date_active_weights)
             THEN CHOOSE i \in 1..Len(date_active_weights) :
                      date_active_weights[i].name = stock_name
             ELSE 0

\* active_weight of a result row
ReportActiveWeight(stock_name, date_active_weights) ==
    LET i == ReportMatchedRow(stock_name, date_active_weights)
    IN  IF i = 0 THEN Zero ELSE date_active_weights[i].value

\* stock_return: the return since the base date in percent, 0 without a
\* valid price pair
StockReturn(base_price, date_price) ==
    IF Truthy(base_price) /\ Truthy(date_price) /\ RPos(base_price)
    THEN RMul(RSub(RDiv(date_price, base_price), One), R(100, 1))
    ELSE Zero

\* a percentage as a fraction: x / 100 if x != 0 else 0.0
Percent(x) == IF x # Zero THEN RDiv(x, R(100, 1)) ELSE Zero

RAbs(a) == <<Abs(a[1]), a[2]>>

\* mp_amount of a result row
MpAmount(is_base, bm_nav_base, bm_amount, final_active_weight, active_weight_sum, strategy_weight, strategy_weight_sum) ==
    IF is_base
    THEN RAdd(bm_amount, RMul(bm_nav_base, final_active_weight))
    ELSE LET mp_nav == RAdd(bm_nav_base, RMul(bm_nav_base, active_weight_sum))
         IN  IF RPos(strategy_weight)
             THEN IF /\ RPos(strategy_weight_sum)
                     /\ RLt(RAbs(RSub(strategy_weight_sum, mp_nav)), R(1, 100))
                  THEN strategy_weight
                  ELSE RMul(mp_nav, strategy_weight)
             ELSE Zero

\* the columns of a result row ('날짜' and '종목명' are the keys of results)
ResultColumns ==
    {"PRICE", "LOCAL_PRICE", "BM_weight", "active_weight", "strategy_weight",
     "weight_diff", "BM_amount", "MP_amount", "absolute_active_amount",
     "absolute_active_pct", "return_since_base", "BM_contribution",
     "strategy_contribution", "excess_contribution"}

\* the columns of a row of daily_weight_summary ('날짜' is its position)
SummaryColumns ==
    {"BM_weight_sum", "strategy_weight_sum", "active_weight_sum", "weight_sum_diff",
     "BM_NAV", "MP_NAV", "NAV_diff"}

\* the rows appended to results for one date
ResultRows(is_base, date_bm_weights, date_active_weights, strategy_weights, base_px, date_px, stocks) ==
    LET total == IF DOMAIN date_bm_weights # {} THEN SumValues(date_bm_weights) ELSE One
        bm_nav_base == IF RLe(total, Zero) THEN One ELSE total
        active_weight_sum == SumSeq(date_active_weights)
        strategy_weight_sum == SumValues(strategy_weights)
    IN  Eval([s \in stocks |->
            LET bm_weight == Get(date_bm_weights, s, Zero)
                strategy_weight == Get(strategy_weights, s, Zero)
                active_weight == ReportActiveWeight(s, date_active_weights)
                final_active_weight == IF RPos(active_weight) THEN active_weight ELSE Zero
                stock_return == StockReturn(Get(base_px, s, None), Get(date_px, s, None))
                bm_contribution == RMul(stock_return, bm_weight)
                strategy_contribution == RMul(stock_return, strategy_weight)
                bm_amount == RMul(bm_nav_base, bm_weight)
                mp_amount == MpAmount(is_base, bm_nav_base, bm_amount, final_active_weight,
                                      active_weight_sum, strategy_weight,
                                      strategy_weight_sum)
            IN  [PRICE |-> Get(date_px, s, None),
                 LOCAL_PRICE |-> None,
                 BM_weight |-> bm_weight,
                 active_weight |-> final_active_weight,
                 strategy_weight |-> strategy_weight,
                 weight_diff |-> RSub(strategy_weight, bm_weight),
                 BM_amount |-> bm_amount,
                 MP_amount |-> mp_amount,
                 absolute_active_amount |-> RSub(mp_amount, bm_amount),
                 absolute_active_pct |-> RDiv(RSub(mp_amount, bm_amount), bm_nav_base),
                 return_since_base |-> Percent(stock_return),
                 BM_contribution |-> Percent(bm_contribution),
                 strategy_contribution |-> Percent(strategy_contribution),
                 excess_contribution |->
                     Percent(RSub(strategy_contribution, bm_contribution))]])

\* the call is still running
NotReturned == [value |-> "", raised |-> "", date |-> 0, bm_data_empty |-> FALSE]

NoSolver ==
    [applied |-> FALSE, target_weight |-> None, nav_current |-> None,
     adjusted_weight |-> None, pass |-> <<>>]

\* calculate_strategy_portfolio_returns before its date loop
NoReturns == [prev_bm_weights |-> EmptyMap, strategy_weights |-> EmptyMap, results |-> <<>>]

\* an attribution function that has not been called
NotCalled == [dates |-> 0, start |-> 0, rows |-> {}, cumulative |-> EmptyMap]

\* before the first pass of the date loop
Start(sc) ==
    /\ scope = sc
    /\ window = <<>>
    /\ run = 1
    /\ di = 0
    /\ prev_bm_weights = EmptyMap
    /\ prev_strategy_weights = EmptyMap
    /\ prev_prices = EmptyMap
    /\ prev_bm_nav = None
    /\ prev_mp_nav = None
    /\ results = <<>>
    /\ daily_weight_summary = <<>>
    /\ day = NoDay
    /\ first_results = <<>>
    /\ first_summary = <<>>
    /\ base_prices = EmptyMap
    /\ returned = NotReturned
    /\ strategy_returns = NoReturns
    /\ constituents = <<>>
    /\ daily_sector_contributions = NotCalled
    /\ bm_stock_weights = NotCalled
    /\ daily_and_cumulative = NotCalled
    /\ sector_timeseries = NotCalled

Init ==
    /\ \E sc \in Scopes : Start(sc)
    /\ solver = NoSolver

\* the pass of the date loop for the base date
ProcessBaseDate(input) ==
    LET date_bm_weights == DateBmWeights(input.bm)
        date_active_weights == DateActiveWeights(input.rows)
        date_prices == DatePrices(input.prices)
        strategy_weights == BaseStrategyWeights(date_bm_weights, date_active_weights)
        bm_weight_sum == SumValues(date_bm_weights)
        strategy_weight_sum == SumValues(strategy_weights)
        active_weight_sum == SumSeq(date_active_weights)
        bm_nav_base == BaseBmNav(bm_weight_sum)
        mp_nav == BaseMpNav(bm_nav_base, active_weight_sum)
    IN  /\ prev_bm_weights' = date_bm_weights
        /\ prev_strategy_weights' = strategy_weights
        /\ prev_prices' = date_prices
        /\ prev_bm_nav' = bm_nav_base
        /\ prev_mp_nav' = mp_nav
        /\ results' = Append(results,
               ResultRows(TRUE, date_bm_weights, date_active_weights, strategy_weights,
                          date_prices, date_prices,
                          AllStocksForPrice(date_bm_weights, date_active_weights)))
        /\ daily_weight_summary' = Append(daily_weight_summary,
               [BM_weight_sum |-> bm_weight_sum,
                strategy_weight_sum |-> strategy_weight_sum,
                active_weight_sum |-> active_weight_sum,
                weight_sum_diff |-> RSub(strategy_weight_sum, bm_weight_sum),
                BM_NAV |-> bm_nav_base, MP_NAV |-> mp_nav,
                NAV_diff |-> RSub(mp_nav, bm_nav_base)])
        /\ day' = [NoDay EXCEPT !.is_base = TRUE,
                                !.date_bm_weights = date_bm_weights,
                                !.date_active_weights = date_active_weights,
                                !.date_prices = date_prices,
                                !.all_stocks = DOMAIN strategy_weights,
                                !.strategy_weights = strategy_weights,
                                !.report_match =
                                    Eval([s \in DOMAIN strategy_weights |->
                                        ReportMatchedRow(s, date_active_weights)])]

\* the pass of the date loop for a later date; order is the order in which
\* the set all_stocks yields the stocks with an active weight
ProcessLaterDate(input) ==
    \* (every local is bound to its value once)
    \E date_bm_weights \in {DateBmWeights(input.bm)} :
    \E date_active_weights \in {DateActiveWeights(input.rows)} :
    \E date_prices \in {DatePrices(input.prices)} :
    \* without strategy weights of an earlier pass the BM weights of the
    \* previous date stand in
    \E start_bm \in {IF DOMAIN prev_strategy_weights # {} THEN prev_bm_weights
                     ELSE IF di >= 1 THEN DateBmWeights(window[di].bm) @@ prev_bm_weights
                     ELSE date_bm_weights} :
    \E start_sw \in {IF DOMAIN prev_strategy_weights # {} THEN prev_strategy_weights
                     ELSE start_bm} :
    \E all_stocks \in {AllStocks(start_sw, date_bm_weights, date_active_weights)} :
    \E adjusted_weights \in
           {AdjustedWeights(all_stocks, start_sw, prev_prices, date_prices)} :
    \E swa \in {StocksWithActiveWeight(all_stocks, adjusted_weights, date_active_weights)} :
    \E bm_weight_sum \in {SumValues(date_bm_weights)} :
    \E active_weight_sum \in {SumSeq(date_active_weights)} :
    \* prev_bm_weights and prev_strategy_weights already hold today's
    \* weights when the daily returns are summed
    \E bm_daily_return \in {DailyReturn(date_bm_weights, prev_prices, date_prices)} :
    \E bm_nav_base \in {NextBmNav(prev_bm_nav, bm_daily_return, bm_weight_sum)} :
    \E order \in Orderings(DOMAIN swa) :
    \E t \in {Targeting(all_stocks, adjusted_weights, swa, order)} :
    \E strategy_weights \in {t.strategy_weights} :
    \E strategy_weight_sum \in {SumValues(strategy_weights)} :
    \E mp_daily_return \in {DailyReturn(strategy_weights, prev_prices, date_prices)} :
    \E mp_nav \in {NextMpNav(prev_mp_nav, mp_daily_return, bm_nav_base,
                             active_weight_sum)} :
              /\ prev_bm_weights' = date_bm_weights
              /\ prev_strategy_weights' = strategy_weights
              /\ prev_prices' = date_prices
              /\ prev_bm_nav' = bm_nav_base
              /\ prev_mp_nav' = mp_nav
              /\ results' = Append(results,
                     ResultRows(FALSE, date_bm_weights, date_active_weights,
                                strategy_weights, base_prices, date_prices,
                                DOMAIN strategy_weights \cup DOMAIN date_bm_weights))
              /\ daily_weight_summary' = Append(daily_weight_summary,
                     [BM_weight_sum |-> bm_weight_sum,
                      strategy_weight_sum |-> strategy_weight_sum,
                      active_weight_sum |-> active_weight_sum,
                      weight_sum_diff |-> RSub(strategy_weight_sum, bm_weight_sum),
                      BM_NAV |-> bm_nav_base, MP_NAV |-> mp_nav,
                      NAV_diff |-> RSub(mp_nav, bm_nav_base)])
              /\ day' = [is_base |-> FALSE,
                         date_bm_weights |-> date_bm_weights,
                         date_active_weights |-> date_active_weights,
                         date_prices |-> date_prices,
                         before_strategy_weights |-> start_sw,
                         before_prices |-> prev_prices,
                         before_mp_nav |-> prev_mp_nav,
                         before_bm_nav |-> prev_bm_nav,
                         all_stocks |-> all_stocks,
                         adjusted_weights |-> adjusted_weights,
                         stocks_with_active_weight |-> swa,
                         nav_old |-> t.nav_old,
                         nav_current |-> t.nav_current,
                         injections |-> t.injections,
                         strategy_weights |-> strategy_weights,
                         engine_match |->
                             Eval([s \in all_stocks |->
                                 EngineMatchedRow(s, date_active_weights)]),
                         report_match |->
                             Eval([s \in all_stocks |->
                                 ReportMatchedRow(s, date_active_weights)])]

\* one pass of the date loop; a date without any stock is skipped
ProcessDate(input) ==
    IF AllStocksForPrice(DateBmWeights(input.bm), DateActiveWeights(input.rows)) = {}
    THEN UNCHANGED <<prev_bm_weights, prev_strategy_weights, prev_prices, prev_bm_nav,
                     prev_mp_nav, results, daily_weight_summary, day>>
    ELSE IF di = 0
         THEN ProcessBaseDate(input)
         ELSE ProcessLaterDate(input)

\* first call: the loop reaches the base date
BaseDate ==
    /\ run = 1
    /\ di = 0
    /\ returned = NotReturned
    /\ \E input \in DateInputs(scope) :
          /\ ProcessDate(input)
          /\ window' = Append(window, input)
          /\ base_prices' = DatePrices(input.prices)
    /\ di' = di + 1
    /\ UNCHANGED <<scope, run, first_results, first_summary, solver, returned>>
    /\ UNCHANGED <<strategy_returns, attribution>>

\* first call: the loop reaches a later date
LaterDate ==
    /\ run = 1
    /\ di >= 1
    /\ di < MaxDates
    /\ \E input \in DateInputs(scope) :
          /\ ProcessDate(input)
          /\ window' = Append(window, input)
    /\ di' = di + 1
    /\ UNCHANGED <<scope, run, first_results, first_summary, solver, base_prices, returned>>
    /\ UNCHANGED <<strategy_returns, attribution>>

\* the function returns and is called again on the same rows
Rerun ==
    /\ run = 1
    /\ di = MaxDates
    /\ run' = 2
    /\ di' = 0
    /\ first_results' = results
    /\ first_summary' = daily_weight_summary
    /\ prev_bm_weights' = EmptyMap
    /\ prev_strategy_weights' = EmptyMap
    /\ prev_prices' = EmptyMap
    /\ prev_bm_nav' = None
    /\ prev_mp_nav' = None
    /\ results' = <<>>
    /\ daily_weight_summary' = <<>>
    /\ day' = NoDay
    /\ UNCHANGED <<scope, window, solver, base_prices, returned>>
    /\ UNCHANGED <<strategy_returns, attribution>>

\* second call: one pass of the date loop
ReplayDate ==
    /\ run = 2
    /\ di < Len(window)
    /\ ProcessDate(window[di + 1])
    /\ di' = di + 1
    /\ UNCHANGED <<scope, window, run, first_results, first_summary, solver, base_prices,
                   returned>>
    /\ UNCHANGED <<strategy_returns, attribution>>

\* the call finds no benchmark row on or before the base date (bm_data is
\* empty, or its first date is later than base_date) and returns before the
\* date loop
NoBaseHoldings ==
    /\ run = 1
    /\ di = 0
    /\ returned = NotReturned
    /\ \E later_rows \in BOOLEAN :
          returned' = [value |-> "DataFrame()", raised |-> "", date |-> 0,
                       bm_data_empty |-> ~later_rows]
    /\ UNCHANGED <<scope, window, run, di, prev_bm_weights, prev_strategy_weights,
                   prev_prices, prev_bm_nav, prev_mp_nav, results, daily_weight_summary,
                   day, first_results, first_summary, solver, base_prices>>
    /\ UNCHANGED <<strategy_returns, attribution>>

\* one call of the function over a window
Next == BaseDate \/ LaterDate

Spec == Init /\ [][Next]_vars

\* two calls of the function over the same window
NextRerun == BaseDate \/ LaterDate \/ Rerun \/ ReplayDate

RerunSpec == Init /\ [][NextRerun]_vars

\* one call of the function over a window with unusual rows
InitEdge ==
    /\ \E sc \in EdgeScopes : Start(sc)
    /\ solver = NoSolver

NextEdge == BaseDate \/ LaterDate \/ NoBaseHoldings

EdgeSpec == InitEdge /\ [][NextEdge]_vars

----------------------------------------------------------------------------
(* The exact-targeting solver on its own *)

SolverGrid == {R(k, 4) : k \in 0..MaxQuarters}

InitSolver ==
    /\ Start(OverrideScope)
    /\ \E t \in SolverGrid, n \in SolverGrid \ {Zero}, a \in SolverGrid :
          solver = [NoSolver EXCEPT !.target_weight = t, !.nav_current = n,
                                    !.adjusted_weight = a]

\* one pass of the injection loop for a stock with the given target
ApplySolver ==
    /\ ~solver.applied
    /\ solver' = [solver EXCEPT
          !.applied = TRUE,
          !.pass = InjectOne([nav_current |-> solver.nav_current,
                              adjusted_weights_current |-> (A :> solver.adjusted_weight),
                              strategy_weights |-> EmptyMap,
                              injections |-> <<>>],
                             A, [target_weight |-> solver.target_weight]).injections]
    /\ UNCHANGED <<scope, window, run, di, prev_bm_weights, prev_strategy_weights,
                   prev_prices, prev_bm_nav, prev_mp_nav, results, daily_weight_summary,
                   day, first_results, first_summary, base_prices, returned>>
    /\ UNCHANGED <<strategy_returns, attribution>>

NextSolver == ApplySolver

SolverSpec == InitSolver /\ [][NextSolver]_vars

----------------------------------------------------------------------------
(* calculate_strategy_portfolio_returns: the strategy cumulative-return series *)

\* strategy_weights of a date: BM weight + active_weight on the base date; on
\* a later date the previous date's BM weights (what the previous pass left in
\* strategy_weights when there are none), completed with the date's BM weights
ReturnsStrategyWeights(is_base, date_bm_weights, date_active_weights, st) ==
    IF is_base
    THEN Eval([s \in DOMAIN date_bm_weights \cup DictKeys(date_active_weights) |->
             RAdd(Get(date_bm_weights, s, Zero), DictGet(date_active_weights, s, Zero))])
    ELSE LET before == IF st.prev_bm_weights = EmptyMap
                       THEN st.strategy_weights
                       ELSE st.prev_bm_weights
         IN  Eval([s \in DOMAIN before \cup DOMAIN date_bm_weights |->
                 IF s \in DOMAIN before THEN before[s] ELSE date_bm_weights[s]])

\* strategy_value of a date: the sum of stock_return * strategy_weight over the
\* stocks with a base price and a date price; 0 on the base date
StrategyValue(is_base, strategy_weights, base_px, date_px) ==
    LET priced == {s \in DOMAIN strategy_weights :
                      /\ Truthy(Get(base_px, s, None))
                      /\ Truthy(Get(date_px, s, None))
                      /\ RPos(Get(base_px, s, None))}
        contribution == [s \in priced |->
                            RMul(StockReturn(base_px[s], date_px[s]), strategy_weights[s])]
    IN  IF is_base THEN Zero ELSE SumValues(contribution)

\* one pass of the date loop
ReturnsPass(st, input, is_base, base_px) ==
    LET date_bm_weights == DateBmWeights(input.bm)
        date_active_weights == DateActiveWeights(input.rows)
        strategy_weights ==
            ReturnsStrategyWeights(is_base, date_bm_weights, date_active_weights, st)
        date_prices == DatePrices(input.prices)
    IN  [prev_bm_weights |-> date_bm_weights,
         strategy_weights |-> strategy_weights,
         results |-> Append(st.results,
                            StrategyValue(is_base, strategy_weights, base_px, date_prices))]

\* the date loop over the rows of a window
RECURSIVE ReturnsLoop(_, _, _, _)
ReturnsLoop(st, w, i, base_px) ==
    IF i > Len(w) THEN st
    ELSE ReturnsLoop(ReturnsPass(st, w[i], i = 1, base_px), w, i + 1, base_px)

\* the series the function returns for a window
StrategyCumulativeReturn(w) ==
    IF w = <<>> THEN <<>>
    ELSE ReturnsLoop(NoReturns, w, 1, DatePrices(w[1].prices)).results

\* the loop reaches the base date
ReturnsBaseDate ==
    /\ di = 0
    /\ \E input \in DateInputs(scope) :
          /\ window' = Append(window, input)
          /\ base_prices' = DatePrices(input.prices)
          /\ strategy_returns' =
                ReturnsPass(strategy_returns, input, TRUE, DatePrices(input.prices))
    /\ di' = di + 1
    /\ UNCHANGED <<scope, run, first_results, first_summary, solver, returned>>
    /\ UNCHANGED <<comparison, attribution>>

\* the loop reaches a later date
ReturnsLaterDate ==
    /\ di >= 1
    /\ di < MaxDates
    /\ \E input \in DateInputs(scope) :
          /\ window' = Append(window, input)
          /\ strategy_returns' = ReturnsPass(strategy_returns, input, FALSE, base_prices)
    /\ di' = di + 1
    /\ UNCHANGED <<scope, run, first_results, first_summary, solver, returned, base_prices>>
    /\ UNCHANGED <<comparison, attribution>>

NextReturns == ReturnsBaseDate \/ ReturnsLaterDate

ReturnsSpec == Init /\ [][NextReturns]_vars

----------------------------------------------------------------------------
(* The attribution functions over the index_constituents rows *)

\* the rows of one date: stock -> [gics_name, weight, price]; a NULL weight or
\* price is a row the table holds without that value.  A and B are in one
\* sector; B follows C's price and has no weight on the dates A has no price
ConstituentRows(pa, pc) ==
    (A :> [gics_name |-> "IT", weight |-> R(1, 2), price |-> pa])
    @@ (B :> [gics_name |-> "IT",
              weight |-> IF pa = NULL THEN NULL ELSE R(1, 4),
              price |-> IF pc = NULL THEN One ELSE pc])
    @@ (C :> [gics_name |-> "Energy", weight |-> R(1, 4), price |-> pc])

ConstituentDates ==
    {ConstituentRows(pa, pc) : pa \in {One, R(2, 1), NULL}, pc \in {One, R(2, 1), NULL}}

\* price.notna() & (price > 0) & weight.notna()
ValidRow(r) == r.price # NULL /\ RPos(r.price) /\ r.weight # NULL

\* the stocks of a date that pass the filter
ValidRows(rows) == {s \in DOMAIN rows : ValidRow(rows[s])}

\* (mutant) the frame keeps the dates none of whose rows pass the filter
PerformanceDatesUnfiltered(table) == 1..Len(table)

\* the dates of performance_df: the query returns the rows with a price, a
\* positive price and a weight only
PerformanceDates(table) == {d \in 1..Len(table) : ValidRows(table[d]) # {}}

\* ret: (current_price - prev_price) / prev_price * 100
DailyRet(prev_price, current_price) ==
    RMul(RDiv(RSub(current_price, prev_price), prev_price), R(100, 1))

\* contribution_df: the inner merge of the previous date's rows with the
\* date's prices, with ret_contribution = ret * prev_weight
RetContribution(prev_rows, current_rows) ==
    Eval([s \in ValidRows(prev_rows) \cap ValidRows(current_rows) |->
        RMul(DailyRet(prev_rows[s].price, current_rows[s].price), prev_rows[s].weight)])

\* groupby('gics_name')['ret_contribution'].sum()
SectorContributions(prev_rows, current_rows) ==
    LET c == RetContribution(prev_rows, current_rows)
    IN  Eval([g \in {prev_rows[s].gics_name : s \in DOMAIN c} |->
            SumOver(c, {s \in DOMAIN c : prev_rows[s].gics_name = g})])

\* (mutant) the cumulative value is overwritten with the day's value
AccumulateOverwrite(cumulative, daily) == daily

\* cumulative += daily
Accumulate(cumulative, daily) == RAdd(cumulative, daily)

\* d[k] = 0.0 for every k of keys
ZeroAll(d, keys) == Eval([k \in DOMAIN d \cup keys |-> IF k \in keys THEN Zero ELSE d[k]])

\* d[k] += c[k] for every k of c, a missing d[k] starting at 0.0
AccumulateAll(d, c) ==
    Eval([k \in DOMAIN d \cup DOMAIN c |->
        IF k \in DOMAIN c THEN Accumulate(Get(d, k, Zero), c[k]) ELSE d[k]])

\* the sectors of the date's rows that pass the filter
Sectors(rows) == {rows[s].gics_name : s \in ValidRows(rows)}

\* get_daily_sector_contributions before its date loop (prev_date 0 is None)
NoSectorLoop ==
    [prev_date |-> 0, sector_cumulative_contribution |-> EmptyMap,
     daily_contributions |-> {}]

\* one pass of the date loop of get_daily_sector_contributions; date 1 is
\* start_date_obj
SectorPass(st, table, d) ==
    LET current == ValidRows(table[d])
    IN  IF d = 1
        THEN IF current # {}
             THEN [st EXCEPT
                      !.sector_cumulative_contribution = ZeroAll(@, Sectors(table[d])),
                      !.prev_date = d]
             ELSE st
        ELSE IF current = {}
        THEN [st EXCEPT !.prev_date = d]
        ELSE IF st.prev_date = 0
        THEN [st EXCEPT
                 !.sector_cumulative_contribution = ZeroAll(@, Sectors(table[d])),
                 !.daily_contributions =
                     @ \cup {[dt |-> d, gics_name |-> g, daily_contribution |-> Zero,
                              cumulative_contribution |-> Zero] : g \in Sectors(table[d])},
                 !.prev_date = d]
        ELSE IF ValidRows(table[st.prev_date]) = {}
        THEN [st EXCEPT !.prev_date = d]
        ELSE LET sc == SectorContributions(table[st.prev_date], table[d])
                 cumulative == AccumulateAll(st.sector_cumulative_contribution, sc)
             IN  [st EXCEPT
                     !.sector_cumulative_contribution = cumulative,
                     !.daily_contributions =
                         @ \cup {[dt |-> d, gics_name |-> g, daily_contribution |-> sc[g],
                                  cumulative_contribution |-> cumulative[g]] :
                                     g \in DOMAIN sc},
                     !.prev_date = d]

\* the date loop over the dates of performance_df, in order
RECURSIVE SectorLoop(_, _, _, _)
SectorLoop(st, table, d, dates) ==
    IF d > Len(table) THEN st
    ELSE SectorLoop(IF d \in dates THEN SectorPass(st, table, d) ELSE st,
                    table, d + 1, dates)

\* what get_daily_sector_contributions returns for the table
DailySectorContributions(table) ==
    LET st == SectorLoop(NoSectorLoop, table, 1, PerformanceDates(table))
    IN  [dates |-> Len(table), start |-> 1, rows |-> st.daily_contributions,
         cumulative |-> st.sector_cumulative_contribution]

\* max(-100.0, min(100.0, x))
Clamp(x) ==
    IF RLt(x, R(-100, 1)) THEN R(-100, 1)
    ELSE IF RLt(R(100, 1), x) THEN R(100, 1) ELSE x

\* get_bm_stock_weights before its date loop
NoStockLoop == [prev_date |-> 0, stock_cumulative_performance |-> EmptyMap]

\* one pass of the date loop of get_bm_stock_weights
StockPass(st, table, d) ==
    LET current == ValidRows(table[d])
    IN  IF d = 1
        THEN IF current # {}
             THEN [st EXCEPT !.stock_cumulative_performance = ZeroAll(@, current),
                             !.prev_date = d]
             ELSE st
        ELSE IF current = {}
        THEN [st EXCEPT !.prev_date = d]
        ELSE IF st.prev_date = 0
        THEN [st EXCEPT !.stock_cumulative_performance = ZeroAll(@, current),
                        !.prev_date = d]
        ELSE IF ValidRows(table[st.prev_date]) = {}
        THEN [st EXCEPT !.prev_date = d]
        ELSE [st EXCEPT
                 !.stock_cumulative_performance =
                     AccumulateAll(@, RetContribution(table[st.prev_date], table[d])),
                 !.prev_date = d]

\* the date loop over the dates of its performance_df, which holds every date
\* with a weight
RECURSIVE StockLoop(_, _, _)
StockLoop(st, table, d) ==
    IF d > Len(table) THEN st
    ELSE StockLoop(IF \E s \in DOMAIN table[d] : table[d][s].weight # NULL
                   THEN StockPass(st, table, d) ELSE st,
                   table, d + 1)

\* the price of the stock on its last date with a positive price
RECURSIVE FinalPrice(_, _, _)
FinalPrice(table, s, d) ==
    IF d = 0 THEN None
    ELSE IF table[d][s].price # NULL /\ RPos(table[d][s].price) THEN table[d][s].price
    ELSE FinalPrice(table, s, d - 1)

\* period_return of a stock: (final_price - base_price) / base_price * 100
StockPeriodReturn(base_price, final_price) ==
    IF Truthy(base_price) /\ Truthy(final_price) /\ RPos(base_price)
    THEN Clamp(RMul(RDiv(RSub(final_price, base_price), base_price), R(100, 1)))
    ELSE Zero

\* what get_bm_stock_weights returns for the table: one row per stock with a
\* weight on the base date
BmStockWeights(table) ==
    LET st == StockLoop(NoStockLoop, table, 1)
        base == {s \in DOMAIN table[1] : table[1][s].weight # NULL}
    IN  [dates |-> Len(table), start |-> 1,
         rows |-> {[stock_name |-> s,
                    base_weight_pct |-> RMul(table[1][s].weight, R(100, 1)),
                    period_return |->
                        StockPeriodReturn(
                            IF ValidRow(table[1][s]) THEN table[1][s].price ELSE None,
                            FinalPrice(table, s, Len(table))),
                    contribution |->
                        Clamp(Get(st.stock_cumulative_performance, s, Zero))] :
                   s \in base},
         cumulative |-> st.stock_cumulative_performance]

\* calculate_daily_and_cumulative_contribution: one pass of its loop over the
\* pairs of consecutive dates; both dates must be in date_data_dict
ContributionPass(st, table, i) ==
    IF ValidRows(table[i - 1]) = {} \/ ValidRows(table[i]) = {}
    THEN st
    ELSE LET c == RetContribution(table[i - 1], table[i])
             sc == SectorContributions(table[i - 1], table[i])
         IN  IF DOMAIN c = {} THEN st
             ELSE [sector_cumulative_contribution |->
                       AccumulateAll(st.sector_cumulative_contribution, sc),
                   daily_results |->
                       st.daily_results \cup
                           {[date |-> i, prev_date |-> i - 1,
                             daily_return |-> SumValues(c),
                             sector_contributions |-> sc]}]

RECURSIVE ContributionLoop(_, _, _)
ContributionLoop(st, table, i) ==
    IF i > Len(table) THEN st
    ELSE ContributionLoop(ContributionPass(st, table, i), table, i + 1)

\* what calculate_daily_and_cumulative_contribution computes for the table
DailyAndCumulativeContribution(table) ==
    LET st == ContributionLoop([sector_cumulative_contribution |-> EmptyMap,
                                daily_results |-> {}], table, 2)
    IN  [dates |-> Len(table), start |-> 1, rows |-> st.daily_results,
         cumulative |-> st.sector_cumulative_contribution]

\* the rows _load_index_constituents keeps: index_weight and local_price not NULL
LoadedRows(rows) == {s \in DOMAIN rows : rows[s].weight # NULL /\ rows[s].price # NULL}

\* _sector_daily_contribution: the sector sums of ret * w_prev over the tickers
\* of both dates with a positive previous price
SectorDailyContribution(prev_rows, curr_rows) ==
    LET m == {s \in LoadedRows(prev_rows) \cap LoadedRows(curr_rows) :
                 RPos(prev_rows[s].price)}
        contrib_pct == [s \in m |->
            RMul(DailyRet(prev_rows[s].price, curr_rows[s].price), prev_rows[s].weight)]
    IN  Eval([g \in {prev_rows[s].gics_name : s \in m} |->
            SumOver(contrib_pct, {s \in m : prev_rows[s].gics_name = g})])

\* the set of dates in ascending order
RECURSIVE SortedDates(_)
SortedDates(S) ==
    IF S = {} THEN <<>>
    ELSE LET m == CHOOSE x \in S : \A y \in S : x <= y
         IN  <<m>> \o SortedDates(S \ {m})

\* groupby("gics_name")["contribution"].cumsum() over the rows of one sector in
\* date order
RECURSIVE CumSum(_, _, _)
CumSum(rows, i, running) ==
    IF i > Len(rows) THEN {}
    ELSE LET total == Accumulate(running, rows[i].contribution)
         IN  {[dt |-> rows[i].dt, gics_name |-> rows[i].gics_name,
               contribution |-> rows[i].contribution,
               cumulative_contribution |-> total]}
             \cup CumSum(rows, i + 1, total)

\* what _sector_contribution_timeseries returns for the window first..last
SectorContributionTimeseries(table, first, last) ==
    LET dates == SortedDates({d \in first..last : LoadedRows(table[d]) # {}})
        daily == [i \in 2..Len(dates) |->
                     SectorDailyContribution(table[dates[i - 1]], table[dates[i]])]
        sectors_in_ts == UNION {DOMAIN daily[i] : i \in DOMAIN daily}
        of_sector(g) ==
            LET on == {i \in DOMAIN daily : g \in DOMAIN daily[i]}
                order == SortedDates(on)
            IN  [k \in 1..Len(order) |->
                    [dt |-> dates[order[k]], gics_name |-> g,
                     contribution |-> daily[order[k]][g]]]
        ts == UNION {CumSum(of_sector(g), 1, Zero) : g \in sectors_in_ts}
        start_rows == {[dt |-> dates[1], gics_name |-> g, contribution |-> Zero,
                        cumulative_contribution |-> Zero] : g \in sectors_in_ts}
    IN  [dates |-> Len(table), start |-> first,
         rows |-> IF Len(dates) < 2 \/ sectors_in_ts = {} THEN {} ELSE start_rows \cup ts,
         cumulative |-> EmptyMap]

\* the table gets the rows of its next date; every function has been called
\* on the dates before
LoadDate ==
    /\ Len(constituents) < MaxDates
    /\ sector_timeseries.dates = Len(constituents)
    /\ \E rows \in ConstituentDates : constituents' = Append(constituents, rows)
    /\ UNCHANGED <<scope, window, run, di, first_results, first_summary, solver,
                   base_prices, returned, strategy_returns, comparison,
                   daily_sector_contributions, bm_stock_weights, daily_and_cumulative,
                   sector_timeseries>>

\* a call of get_daily_sector_contributions with the table's first date as
\* base_date and its last date as end_date
GetDailySectorContributions ==
    /\ daily_sector_contributions.dates < Len(constituents)
    /\ daily_sector_contributions' = DailySectorContributions(constituents)
    /\ UNCHANGED <<scope, window, run, di, first_results, first_summary, solver,
                   base_prices, returned, strategy_returns, comparison, constituents,
                   bm_stock_weights, daily_and_cumulative, sector_timeseries>>

\* a call of get_bm_stock_weights over the same dates
GetBmStockWeights ==
    /\ daily_sector_contributions.dates = Len(constituents)
    /\ bm_stock_weights.dates < Len(constituents)
    /\ bm_stock_weights' = BmStockWeights(constituents)
    /\ UNCHANGED <<scope, window, run, di, first_results, first_summary, solver,
                   base_prices, returned, strategy_returns, comparison, constituents,
                   daily_sector_contributions, daily_and_cumulative, sector_timeseries>>

\* a call of calculate_daily_and_cumulative_contribution over the same dates
CalculateDailyAndCumulativeContribution ==
    /\ bm_stock_weights.dates = Len(constituents)
    /\ daily_and_cumulative.dates < Len(constituents)
    /\ daily_and_cumulative' = DailyAndCumulativeContribution(constituents)
    /\ UNCHANGED <<scope, window, run, di, first_results, first_summary, solver,
                   base_prices, returned, strategy_returns, comparison, constituents,
                   daily_sector_contributions, bm_stock_weights, sector_timeseries>>

\* a call of _sector_contribution_timeseries for a window that ends on the
\* table's last date and starts on any of its dates
SectorContributionTimeseriesCall ==
    /\ daily_and_cumulative.dates = Len(constituents)
    /\ sector_timeseries.dates < Len(constituents)
    /\ \E first \in 1..Len(constituents) :
          sector_timeseries' =
              SectorContributionTimeseries(constituents, first, Len(constituents))
    /\ UNCHANGED <<scope, window, run, di, first_results, first_summary, solver,
                   base_prices, returned, strategy_returns, comparison, constituents,
                   daily_sector_contributions, bm_stock_weights, daily_and_cumulative>>

\* the functions are independent queries over the same rows; they are called
\* in one order after every date
NextAttribution ==
    \/ LoadDate
    \/ GetDailySectorContributions
    \/ GetBmStockWeights
    \/ CalculateDailyAndCumulativeContribution
    \/ SectorContributionTimeseriesCall

InitAttribution ==
    /\ Start(OverrideScope)
    /\ solver = NoSolver

AttributionSpec == InitAttribution /\ [][NextAttribution]_vars

----------------------------------------------------------------------------
(* Properties *)

\* the pass recorded in day is the pass of a later (non-base) date
LaterDay == di >= 2 /\ ~day.is_base

\* the override rows of the date of the last pass, and the delta of a name
DayRows == window[di].rows

RowDelta(rows, n) ==
    IF \E i \in 1..Len(rows) : rows[i].name = n
    THEN LET r == rows[CHOOSE i \in 1..Len(rows) : rows[i].name = n]
         IN  IF r.active_weight = NULL THEN Zero ELSE r.active_weight
    ELSE Zero

RowNames(rows) == {rows[i].name : i \in 1..Len(rows)}

RECURSIVE RowDeltaSum(_)
RowDeltaSum(rows) ==
    IF rows = <<>> THEN Zero
    ELSE RAdd(RowDelta(rows, Head(rows).name), RowDeltaSum(Tail(rows)))

AcceptedInjections == {k \in 1..Len(day.injections) : day.injections[k].accepted}

\* C1: on every later date, each instrument with an override row whose target
\* benchmark_weight_today + weight_delta_today is below 1 is emitted with
\* exactly that target as its strategy weight, whatever the sign of the delta.
C1_TargetIsBenchmarkPlusDelta ==
    LaterDay =>
        \A n \in RowNames(DayRows) :
            LET target == RAdd(Get(day.date_bm_weights, n, Zero), RowDelta(DayRows, n))
            IN  RLt(target, One) => day.strategy_weights[n] = target

\* C2 as stated: for any target in (0,1), nav_current > 0 and adjusted_weight >= 0
\* the injection x is defined and (adjusted_weight + x) / (nav_current + x) = target.
C2_SolverHitsTargetAnyInput ==
    (/\ solver.applied
     /\ RPos(solver.target_weight) /\ RLt(solver.target_weight, One)
     /\ RPos(solver.nav_current)
     /\ RLe(Zero, solver.adjusted_weight))
    => LET p == solver.pass[1]
       IN  /\ p.accepted
           /\ p.additional_amount =
                  RDiv(RSub(RMul(solver.target_weight, solver.nav_current),
                            solver.adjusted_weight),
                       RSub(One, solver.target_weight))
           /\ p.nav_after # Zero
           /\ RDiv(p.new_amount, p.nav_after) = solver.target_weight

\* C2 amended: the same for adjusted_weight # nav_current (with
\* adjusted_weight = nav_current the injection is -nav_current and the NAV
\* after it is 0, so the resulting weight is 0/0).
C2_SolverHitsTarget ==
    (/\ solver.applied
     /\ RPos(solver.target_weight) /\ RLt(solver.target_weight, One)
     /\ RPos(solver.nav_current)
     /\ RLe(Zero, solver.adjusted_weight)
     /\ solver.adjusted_weight # solver.nav_current)
    => LET p == solver.pass[1]
       IN  /\ p.accepted
           /\ p.additional_amount =
                  RDiv(RSub(RMul(solver.target_weight, solver.nav_current),
                            solver.adjusted_weight),
                       RSub(One, solver.target_weight))
           /\ p.nav_after # Zero
           /\ RDiv(p.new_amount, p.nav_after) = solver.target_weight

C2_Witness ==
    /\ solver.applied
    /\ solver.target_weight = R(3, 4)
    /\ solver.nav_current = One
    /\ solver.adjusted_weight = R(1, 2)
    /\ solver.pass[1].additional_amount = One
    /\ solver.pass[1].nav_after = R(2, 1)

\* C3: on a later date with at least one accepted injection the MP NAV
\* emitted for the date is nav_current after the last injection (the drifted
\* NAV plus every amount injected on the date).
C3_NavStrategyIsNavCurrentFinal ==
    (LaterDay /\ AcceptedInjections # {}) =>
        daily_weight_summary[di].MP_NAV = day.nav_current

\* C4: after the injections of a date every instrument without an active
\* weight has strategy weight adjusted_weight / nav_current_final.
C4_Dilution ==
    (LaterDay /\ day.injections # <<>>) =>
        /\ day.nav_current # Zero
        /\ \A j \in day.all_stocks \ DOMAIN day.stocks_with_active_weight :
               day.strategy_weights[j] = RDiv(day.adjusted_weights[j], day.nav_current)

C4_Witness ==
    /\ LaterDay
    /\ AcceptedInjections # {}
    /\ day.nav_current # day.nav_old
    /\ \E j \in day.all_stocks \ DOMAIN day.stocks_with_active_weight :
           /\ day.adjusted_weights[j] # Zero
           /\ day.strategy_weights[j] # day.adjusted_weights[j]

\* C5: on a date with several overrides the injections are made one at a time
\* in ascending order of the instrument id, each on the NAV left by the one
\* before it.
C5_AscendingInjectionOrder ==
    LaterDay =>
        \A k \in 1..Len(day.injections) :
            /\ day.injections[k].nav_before =
                   (IF k = 1 THEN day.nav_old ELSE day.injections[k - 1].nav_after)
            /\ k > 1 => NameLess(day.injections[k - 1].stock, day.injections[k].stock)

\* C6: a second call over the same window returns the same series as the
\* first: the same strategy weights and NAVs on every date.
C6_RerunIdentical ==
    (run = 2 /\ di = Len(window)) =>
        /\ results = first_results
        /\ daily_weight_summary = first_summary

C8_BaseNav ==
    di >= 1 =>
        daily_weight_summary[1].MP_NAV =
            RMul(daily_weight_summary[1].BM_NAV, RAdd(One, RowDeltaSum(window[1].rows)))

C8_Witness ==
    /\ di = 1
    /\ RowDeltaSum(window[1].rows) = R(3, 8)
    /\ daily_weight_summary[1].MP_NAV = R(11, 8)

\* C9: at the base date the strategy weight of every instrument is its
\* benchmark weight plus its weight delta (0 without an override row); the
\* weight of no instrument is changed by the override of another.
C9_BaseWeights ==
    di >= 1 =>
        /\ DOMAIN results[1] = DOMAIN window[1].bm \cup RowNames(window[1].rows)
        /\ \A n \in DOMAIN results[1] :
               results[1][n].strategy_weight =
                   RAdd(Get(window[1].bm, n, Zero), RowDelta(window[1].rows, n))

C9_Witness ==
    /\ di = 1
    /\ day.is_base
    /\ RowDelta(window[1].rows, A) = R(-1, 8)
    /\ RowDelta(window[1].rows, B) = R(1, 4)
    /\ results[1][A].strategy_weight = R(3, 8)
    /\ results[1][B].strategy_weight = R(1, 2)
    /\ results[1][C].strategy_weight = R(1, 4)

\* a stock has a valid price in a price dict
ValidPrice(px, n) == n \in DOMAIN px /\ px[n] # None /\ RPos(px[n])

\* C10: on a later date every instrument with a valid price on the previous
\* and on the current date has adjusted weight = prior strategy weight x
\* price_today / price_yesterday, and every other instrument keeps its prior
\* strategy weight.
C10_Drift ==
    LaterDay =>
        \A n \in day.all_stocks :
            LET prior == Get(day.before_strategy_weights, n, Zero)
            IN  IF ValidPrice(day.before_prices, n) /\ ValidPrice(day.date_prices, n)
                THEN day.adjusted_weights[n] =
                         RDiv(RMul(prior, day.date_prices[n]), day.before_prices[n])
                ELSE day.adjusted_weights[n] = prior

C10_Witness ==
    /\ LaterDay
    /\ \E n \in day.all_stocks :
           /\ ValidPrice(day.before_prices, n) /\ ValidPrice(day.date_prices, n)
           /\ day.date_prices[n] # day.before_prices[n]
           /\ day.adjusted_weights[n] # Get(day.before_strategy_weights, n, Zero)
    /\ \E n \in day.all_stocks :
           /\ ~ValidPrice(day.date_prices, n)
           /\ ValidPrice(day.before_prices, n)
           /\ day.adjusted_weights[n] # Zero

\* C11: on a later date without override rows the strategy weight emitted for
\* every instrument is its adjusted weight; an instrument whose price did not
\* move between the two dates keeps the weight it had, nothing is rescaled.
C11_NoOverrideDate ==
    (LaterDay /\ DayRows = <<>>) =>
        /\ day.injections = <<>>
        /\ DOMAIN results[di] = day.all_stocks
        /\ \A n \in day.all_stocks :
               /\ results[di][n].strategy_weight = day.adjusted_weights[n]
               /\ (\/ ~ValidPrice(day.before_prices, n)
                   \/ ~ValidPrice(day.date_prices, n)
                   \/ day.before_prices[n] = day.date_prices[n])
                  => results[di][n].strategy_weight =
                         Get(day.before_strategy_weights, n, Zero)

C11_Witness ==
    /\ LaterDay
    /\ DayRows = <<>>
    /\ ValidPrice(day.before_prices, A) /\ ValidPrice(day.date_prices, A)
    /\ day.date_prices[A] = RMul(R(2, 1), day.before_prices[A])
    /\ results[di][A].strategy_weight = RMul(R(2, 1), day.before_strategy_weights[A])
    /\ results[di][B].strategy_weight = day.before_strategy_weights[B]
    /\ SumValues(day.strategy_weights) # One

\* C12: an instrument without a valid price on exactly one date t (valid
\* prices on t-1 and t+1, no override rows on t and t+1) keeps its strategy
\* weight on t, and on t+1 its weight moves with the price move observed
\* since its last valid price.
C12_HeldForOneDateOnly ==
    (di >= 3 /\ window[di - 1].rows = <<>> /\ window[di].rows = <<>>) =>
        \A n \in DOMAIN results[di - 2] :
            (/\ ValidPrice(window[di - 2].prices, n)
             /\ ~ValidPrice(window[di - 1].prices, n)
             /\ ValidPrice(window[di].prices, n))
            => /\ results[di - 1][n].strategy_weight = results[di - 2][n].strategy_weight
               /\ results[di][n].strategy_weight =
                      RDiv(RMul(results[di - 1][n].strategy_weight, window[di].prices[n]),
                           window[di - 2].prices[n])

\* every date of the window so far has a positive price for every instrument
AllPricesPositive ==
    \A k \in 1..Len(window) :
        \A n \in DOMAIN window[k].prices : ValidPrice(window[k].prices, n)

\* C13: over a window of holdings with positive prices, whatever the override
\* rows, BM NAV and MP NAV are strictly positive on every emitted date.
C13_NavsPositive ==
    AllPricesPositive =>
        \A k \in 1..Len(daily_weight_summary) :
            /\ RPos(daily_weight_summary[k].BM_NAV)
            /\ RPos(daily_weight_summary[k].MP_NAV)

\* no benchmark holding of the date matches the override name by any rule of
\* the name matching (equality, normalised equality, equality without the
\* country token, prefix)
Unmatched(n, date_bm_weights) ==
    \A h \in DOMAIN date_bm_weights : ~ReportNameMatch(h, n)

\* C14: on a date all of whose override rows name instruments that match no
\* benchmark holding of the date, the overrides have no effect: every
\* instrument is emitted with the weight it has without override (benchmark
\* weight at the base date, adjusted weight later, nothing for the override's
\* own name at the base date) and MP NAV is the NAV without override.
C14_UnmatchedOverrideNoEffect ==
    (/\ di >= 1
     /\ DayRows # <<>>
     /\ \A n \in RowNames(DayRows) : Unmatched(n, day.date_bm_weights)) =>
        /\ \A n \in DOMAIN results[di] :
               results[di][n].strategy_weight =
                   (IF day.is_base THEN Get(day.date_bm_weights, n, Zero)
                    ELSE day.adjusted_weights[n])
        /\ daily_weight_summary[di].MP_NAV =
               (IF day.is_base THEN daily_weight_summary[di].BM_NAV
                ELSE NextMpNav(day.before_mp_nav,
                               DailyReturn(day.adjusted_weights, day.before_prices,
                                           day.date_prices),
                               daily_weight_summary[di].BM_NAV, Zero))

\* the override rows without those whose active_weight is NULL
NullFree(rows) == SelectSeq(rows, LAMBDA r : r.active_weight # NULL)

\* two weight maps hold the same weights (an instrument without entry has 0)
SameWeights(f, g) ==
    \A n \in DOMAIN f \cup DOMAIN g : Get(f, n, Zero) = Get(g, n, Zero)

\* what the pass recorded in day emits when the date's override rows are rows:
\* the strategy weights and MP NAV, for some order of the injections
EmitsWith(rows, strategy_weights, mp_nav) ==
    LET daw == DateActiveWeights(rows)
    IN  IF day.is_base
        THEN /\ SameWeights(strategy_weights,
                            BaseStrategyWeights(day.date_bm_weights, daw))
             /\ mp_nav = BaseMpNav(BaseBmNav(SumValues(day.date_bm_weights)), SumSeq(daw))
        ELSE LET all_stocks == AllStocks(day.before_strategy_weights,
                                         day.date_bm_weights, daw)
                 adjusted_weights == AdjustedWeights(all_stocks,
                                         day.before_strategy_weights,
                                         day.before_prices, day.date_prices)
                 swa == StocksWithActiveWeight(all_stocks, adjusted_weights, daw)
             IN  \E order \in Orderings(DOMAIN swa) :
                     LET t == Targeting(all_stocks, adjusted_weights, swa, order)
                     IN  /\ SameWeights(strategy_weights, t.strategy_weights)
                         /\ mp_nav = NextMpNav(day.before_mp_nav,
                                         DailyReturn(t.strategy_weights,
                                                     day.before_prices, day.date_prices),
                                         daily_weight_summary[di].BM_NAV, SumSeq(daw))

\* C15: an override row with a NULL delta has no effect: the strategy weights
\* and the MP NAV emitted for its date are those emitted when the row is
\* absent, whatever the other override rows of the date.
C15_NullDeltaNoEffect ==
    (di >= 1 /\ NullFree(DayRows) # DayRows) =>
        EmitsWith(NullFree(DayRows), day.strategy_weights,
                  daily_weight_summary[di].MP_NAV)

\* C15 for dates on which no other override row matches the name of the
\* NULL row after normalisation
C15_NullDeltaNoEffectDistinctNames ==
    (/\ di >= 1
     /\ NullFree(DayRows) # DayRows
     /\ \A i, j \in 1..Len(DayRows) :
            (i # j /\ DayRows[i].active_weight = NULL)
            => ~ReportNameMatch(DayRows[i].name, DayRows[j].name)) =>
        EmitsWith(NullFree(DayRows), day.strategy_weights,
                  daily_weight_summary[di].MP_NAV)

\* the first rule of the identifier resolution by which two names match:
\* 1 equality, 2 equality of the normalised names, 3 equality without the
\* country token, 4 prefix, 5 no match
RuleOf(stock_name, mp_stock_name) ==
    LET sc == NameClean(stock_name)
        mc == NameClean(mp_stock_name)
    IN  IF stock_name = mp_stock_name THEN 1
        ELSE IF sc = mc THEN 2
        ELSE IF NameNoUS(sc) # <<>> /\ NameNoUS(mc) # <<>> /\ NameNoUS(sc) = NameNoUS(mc)
             THEN 3
        ELSE IF Prefix(mc, sc) \/ Prefix(sc, mc) THEN 4
        ELSE 5

\* the override row chosen for a stock matches it by a rule no later than the
\* rule by which any other row of the date matches it
ChosenByFirstRule(match) ==
    \A n \in DOMAIN match :
        match[n] # 0 =>
            \A j \in 1..Len(day.date_active_weights) :
                RuleOf(n, day.date_active_weights[match[n]].name)
                    <= RuleOf(n, day.date_active_weights[j].name)

\* C16: the override row resolved for an instrument, in the injection step
\* and in the result rows, is one that matches by the earliest rule
\* (equality, normalised equality, equality without the country token,
\* prefix) by which any row of the date matches the instrument.
C16_FirstRuleWins ==
    di >= 1 => ChosenByFirstRule(day.engine_match) /\ ChosenByFirstRule(day.report_match)

\* C17: a call that finds no holdings for the base date returns no output
\* series and raises an error that names the attempted base date (date 1).
C17_MissingBaseDataError ==
    returned # NotReturned =>
        /\ results = <<>>
        /\ daily_weight_summary = <<>>
        /\ returned.raised # ""
        /\ returned.date = 1

\* the last pass was for a later date without a valid price for any instrument
StaleDay ==
    /\ LaterDay
    /\ \A n \in DOMAIN window[di].prices : ~ValidPrice(window[di].prices, n)

\* the state emitted for the date of the last pass is that of the date before
CarriedForward ==
    /\ SameWeights(day.strategy_weights, day.before_strategy_weights)
    /\ \A n \in DOMAIN results[di] \cup DOMAIN results[di - 1] :
           (IF n \in DOMAIN results[di] THEN results[di][n].strategy_weight ELSE Zero)
           = (IF n \in DOMAIN results[di - 1] THEN results[di - 1][n].strategy_weight
              ELSE Zero)
    /\ daily_weight_summary[di].BM_NAV = daily_weight_summary[di - 1].BM_NAV
    /\ daily_weight_summary[di].MP_NAV = daily_weight_summary[di - 1].MP_NAV

\* C18: on a later date without a valid price for any instrument the emitted
\* strategy weights, BM NAV and MP NAV are those of the previous date.
C18_StaleDateCarriedForward == StaleDay => CarriedForward

\* C18 for stale dates without override rows
C18_StaleDateWithoutOverride == (StaleDay /\ DayRows = <<>>) => CarriedForward

\* the non-fatal conditions of the date of the last pass
RejectedOnDay == LaterDay /\ \E k \in 1..Len(day.injections) : ~day.injections[k].accepted

UnresolvedOnDay ==
    di >= 1 /\ \E n \in RowNames(DayRows) : Unmatched(n, day.date_bm_weights)

\* what is returned for the date of the last pass carries a field besides
\* the value columns: a flag on a result row or on the summary row
SignalOnDay ==
    \/ \E n \in DOMAIN results[di] : DOMAIN results[di][n] \ ResultColumns # {}
    \/ DOMAIN daily_weight_summary[di] \ SummaryColumns # {}

\* C19: a date with a rejected override (target >= 1), an override that
\* matches no holding, or no valid price at all carries an observable signal
\* in what is returned for it.
C19_NonFatalConditionsSignalled ==
    (RejectedOnDay \/ UnresolvedOnDay \/ StaleDay) => SignalOnDay

\* price_t / price_base - 1 of an instrument on the date of the last pass
PeriodReturn(n) == RSub(RDiv(window[di].prices[n], window[1].prices[n]), One)

\* C20: on every result row of an instrument with a valid price on the base
\* date and on the row's date, the return is price_t / price_base - 1 and the
\* benchmark contribution is that return times the instrument's benchmark
\* weight of the base date.
C20_BenchmarkContributionBaseWeight ==
    di >= 1 =>
        \A n \in DOMAIN results[di] :
            (ValidPrice(window[1].prices, n) /\ ValidPrice(window[di].prices, n)) =>
                /\ results[di][n].return_since_base = PeriodReturn(n)
                /\ results[di][n].BM_contribution =
                       RMul(PeriodReturn(n), Get(window[1].bm, n, Zero))

\* C20 with the benchmark weight of the row's date
C20_BenchmarkContributionDateWeight ==
    di >= 1 =>
        \A n \in DOMAIN results[di] :
            (ValidPrice(window[1].prices, n) /\ ValidPrice(window[di].prices, n)) =>
                /\ results[di][n].return_since_base = PeriodReturn(n)
                /\ results[di][n].BM_contribution =
                       RMul(PeriodReturn(n), Get(window[di].bm, n, Zero))

\* C24: on every later date BM NAV is compounded with the sum over the
\* instruments of (daily return) x (benchmark weight of the previous date)
\* and MP NAV with the sum of (daily return) x (strategy weight of the
\* previous date).
C24_ReturnsUsePreviousWeights ==
    LaterDay =>
        /\ daily_weight_summary[di].BM_NAV =
               RMul(day.before_bm_nav,
                    RAdd(One, DailyReturn(window[di - 1].bm, day.before_prices,
                                          day.date_prices)))
        /\ daily_weight_summary[di].MP_NAV =
               RMul(day.before_mp_nav,
                    RAdd(One, DailyReturn(day.before_strategy_weights, day.before_prices,
                                          day.date_prices)))

\* C24 with the weights computed for the date itself
C24_ReturnsUseDateWeights ==
    LaterDay =>
        /\ daily_weight_summary[di].BM_NAV =
               RMul(day.before_bm_nav,
                    RAdd(One, DailyReturn(window[di].bm, day.before_prices,
                                          day.date_prices)))
        /\ daily_weight_summary[di].MP_NAV =
               RMul(day.before_mp_nav,
                    RAdd(One, DailyReturn(day.strategy_weights, day.before_prices,
                                          day.date_prices)))

\* no date of the window so far has an override row
NoOverrideRows == \A k \in 1..Len(window) : window[k].rows = <<>>

\* C25: over a window without any override row MP NAV equals BM NAV on
\* every date (NAV difference 0), whatever the prices and the benchmark
\* weights.
C25_NoOverrideNavsEqual ==
    NoOverrideRows =>
        \A k \in 1..Len(daily_weight_summary) :
            /\ daily_weight_summary[k].MP_NAV = daily_weight_summary[k].BM_NAV
            /\ daily_weight_summary[k].NAV_diff = Zero

\* the amount of an instrument after the injections of the last pass: the
\* amount left by its injection, its adjusted weight without one
PostInjectionAmount(n) ==
    IF \E k \in 1..Len(day.injections) : day.injections[k].stock = n
    THEN day.injections[CHOOSE k \in 1..Len(day.injections) :
                            day.injections[k].stock = n].new_amount
    ELSE day.adjusted_weights[n]

\* C26: after the injections of a later date, also with two or more
\* overrides, the strategy weight emitted for every instrument is its amount
\* after the injections divided by the final nav_current.
C26_WeightIsAmountOverFinalNav ==
    (LaterDay /\ day.injections # <<>> /\ day.nav_current # Zero) =>
        \A n \in day.all_stocks :
            results[di][n].strategy_weight = RDiv(PostInjectionAmount(n), day.nav_current)

\* C26 for dates with a single override, which is accepted
C26_SingleInjection ==
    (LaterDay /\ Len(day.injections) = 1 /\ AcceptedInjections # {}
        /\ day.nav_current # Zero) =>
        \A n \in day.all_stocks :
            results[di][n].strategy_weight = RDiv(PostInjectionAmount(n), day.nav_current)

\* the instruments injected on the date of the last pass from the override
\* row at position i of the date's table
InjectedFrom(i) ==
    {n \in DOMAIN day.stocks_with_active_weight : day.engine_match[n] = i}

\* C27: on a later date every override row causes at most one injection: a
\* row matched to a benchmark holding by normalisation is not injected a
\* second time as an instrument of its own name.
C27_OneInjectionPerOverride ==
    LaterDay =>
        \A i \in 1..Len(day.date_active_weights) : Cardinality(InjectedFrom(i)) <= 1

\* C28: on every result row of a later date the reported active_weight is
\* positive exactly when the injection step took an active weight for the
\* instrument, and both take it from the same override row.
C28_ReportedIffInjected ==
    LaterDay =>
        \A n \in DOMAIN results[di] :
            /\ RPos(results[di][n].active_weight)
                   <=> n \in DOMAIN day.stocks_with_active_weight
            /\ RPos(results[di][n].active_weight)
                   => day.report_match[n] = day.engine_match[n]

\* the window without the override row r of its date k
WithoutOverride(w, k, r) ==
    [j \in 1..Len(w) |->
        IF j # k THEN w[j]
        ELSE [w[j] EXCEPT !.rows = SubSeq(w[j].rows, 1, r - 1)
                                   \o SubSeq(w[j].rows, r + 1, Len(w[j].rows))]]

\* on date j of the window the price of n differs from its base price
PriceMoved(w, j, n) ==
    /\ n \in DOMAIN w[1].prices /\ n \in DOMAIN w[j].prices
    /\ w[1].prices[n] # None /\ w[j].prices[n] # None
    /\ w[j].prices[n] # w[1].prices[n]

\* C29: an override row with a non-zero delta changes the value of the
\* strategy cumulative-return series on some later date on which the
\* instrument's price differs from its base price, compared with the series
\* of the same window without that row.
C29_OverrideChangesSeries ==
    \A k \in 1..Len(window) : \A r \in 1..Len(window[k].rows) :
        LET row == window[k].rows[r]
            plain == StrategyCumulativeReturn(WithoutOverride(window, k, r))
            moved == {j \in (k + 1)..Len(window) : PriceMoved(window, j, row.name)}
        IN  (row.active_weight # NULL /\ row.active_weight # Zero /\ moved # {})
                => \E j \in moved : strategy_returns.results[j] # plain[j]

\* the series kept in the state is the series of the window
C29_SeriesOfWindow ==
    strategy_returns.results = StrategyCumulativeReturn(window)

\* C21: the contribution of every row get_bm_stock_weights returns, by which
\* the instruments are ranked, is period_return * weight(base_date): the
\* buy-and-hold contribution over the whole window.
C21_RankingContributionIsBaseWeight ==
    \A row \in bm_stock_weights.rows :
        row.contribution = RMul(row.period_return, RDiv(row.base_weight_pct, R(100, 1)))

\* the sums of the daily values of a set of rows
DailySum(rows) == SumValues([r \in rows |-> r.daily_contribution])
ContributionSum(rows) == SumValues([r \in rows |-> r.contribution])

\* the rows of the sector up to the date
UpTo(rows, g, d) == {r \in rows : r.gics_name = g /\ r.dt <= d}

\* C22: in every sector series the cumulative_contribution of a row is the sum
\* of the sector's daily contributions over the dates up to and including the
\* row's date, and the final cumulative value of a sector is the sum of all its
\* daily contributions.
C22_RunningSumClosure ==
    /\ \A r \in daily_sector_contributions.rows :
          r.cumulative_contribution =
              DailySum(UpTo(daily_sector_contributions.rows, r.gics_name, r.dt))
    /\ \A g \in {r.gics_name : r \in daily_sector_contributions.rows} :
          daily_sector_contributions.cumulative[g] =
              DailySum(UpTo(daily_sector_contributions.rows, g, MaxDates + 1))
    /\ \A r \in sector_timeseries.rows :
          r.cumulative_contribution =
              ContributionSum(UpTo(sector_timeseries.rows, r.gics_name, r.dt))
    /\ \A g \in DOMAIN daily_and_cumulative.cumulative :
          daily_and_cumulative.cumulative[g] =
              SumValues([r \in {x \in daily_and_cumulative.rows :
                                   g \in DOMAIN x.sector_contributions}
                            |-> r.sector_contributions[g]])

\* C22 (witness): a sector has moved on two dates in the series of
\* get_daily_sector_contributions and of _sector_contribution_timeseries, and
\* calculate_daily_and_cumulative_contribution has accumulated two dates.
C22_Witness ==
    /\ \E r1, r2 \in daily_sector_contributions.rows :
          /\ r1.gics_name = r2.gics_name /\ r1.dt < r2.dt
          /\ r1.daily_contribution # Zero /\ r2.daily_contribution # Zero
    /\ \E r1, r2 \in sector_timeseries.rows :
          /\ r1.gics_name = r2.gics_name /\ r1.dt < r2.dt
          /\ r1.contribution # Zero /\ r2.contribution # Zero
    /\ \E r1, r2 \in daily_and_cumulative.rows :
          /\ r1.date < r2.date
          /\ \E g \in DOMAIN r1.sector_contributions \cap DOMAIN r2.sector_contributions :
                r1.sector_contributions[g] # Zero /\ r2.sector_contributions[g] # Zero

\* the first date of the window of a series that has rows in the table
FirstDate(series, with_rows) ==
    CHOOSE d \in (series.start..series.dates) \cap with_rows :
        \A e \in (series.start..series.dates) \cap with_rows : d <= e

\* the dates of the table with rows _load_index_constituents keeps, and with
\* rows that pass the filter of get_daily_sector_contributions
LoadedDates == {d \in 1..Len(constituents) : LoadedRows(constituents[d]) # {}}
ValidDates == {d \in 1..Len(constituents) : ValidRows(constituents[d]) # {}}

\* every sector of the series has a row on the date, with cumulative 0
StartsAtZero(rows, d) ==
    \A g \in {r.gics_name : r \in rows} :
        \E r \in rows : r.gics_name = g /\ r.dt = d /\ r.cumulative_contribution = Zero

\* C23: every windowed sector series has, for each of its sectors, the
\* cumulative contribution 0 on the first date of the requested window.
C23_WindowStartsAtZero ==
    /\ sector_timeseries.rows # {}
          => StartsAtZero(sector_timeseries.rows, FirstDate(sector_timeseries, LoadedDates))
    /\ daily_sector_contributions.rows # {}
          => StartsAtZero(daily_sector_contributions.rows,
                          FirstDate(daily_sector_contributions, ValidDates))

\* C23 (holds): the series of _sector_contribution_timeseries starts at 0 on
\* the first date of its window.
C23_TimeseriesStartsAtZero ==
    sector_timeseries.rows # {}
        => StartsAtZero(sector_timeseries.rows, FirstDate(sector_timeseries, LoadedDates))

\* the dates before d of the table that have valid rows
EarlierValid(table, d) == {e \in 1..(d - 1) : ValidRows(table[e]) # {}}

\* the latest date of a non-empty set of dates
Latest(S) == CHOOSE d \in S : \A e \in S : e <= d

\* the (sector, daily contribution) pairs the series has on the date
DailyOn(rows, d) ==
    {<<r.gics_name, r.daily_contribution>> : r \in {x \in rows : x.dt = d}}

\* C30: in the series of get_daily_sector_contributions every date after the
\* base date that has valid rows carries the sector contributions computed
\* against the most recent earlier date with valid rows, also when dates
\* without valid rows lie in between.
C30_ContributionAgainstLastValidDate ==
    LET table == SubSeq(constituents, 1, daily_sector_contributions.dates)
    IN  \A d \in 2..Len(table) :
            (ValidRows(table[d]) # {} /\ EarlierValid(table, d) # {})
                => LET sc == SectorContributions(table[Latest(EarlierValid(table, d))],
                                                 table[d])
                   IN  DailyOn(daily_sector_contributions.rows, d)
                           = {<<g, sc[g]>> : g \in DOMAIN sc}

\* C30 (witness): the base date has valid rows, the second date has none, and
\* the third date carries a non-zero contribution.
C30_Witness ==
    /\ daily_sector_contributions.dates = 3
    /\ ValidRows(constituents[1]) # {}
    /\ ValidRows(constituents[2]) = {}
    /\ \E r \in daily_sector_contributions.rows : r.dt = 3 /\ r.daily_contribution # Zero

====
